---- MODULE Spec2Model ----
(***************************************************************************)
(* Model of backend/server.py: the strategy sandbox (execute_strategy),    *)
(* the 3-player match engine (run_match), the round-robin scheduler        *)
(* (run_tournament, an asyncio task) and the admin commands that           *)
(* interleave with it at the task's suspension points.                     *)
(*                                                                         *)
(* The server runs on one asyncio event loop: a request handler and the    *)
(* stretch of run_tournament between two suspending awaits are each one    *)
(* atomic action.  The suspending awaits of the task are its               *)
(* asyncio.sleep calls and the ws.send_json of each broadcast, which waits *)
(* on a slow observer; the commands' own broadcasts come last in their     *)
(* handlers and are folded into them.                                      *)
(***************************************************************************)
EXTENDS Integers, Sequences, FiniteSets, TLC

\* ---------------------------------------------------------------- bounds
MaxTeams == 3
MaxTasks == 2
Rounds == 2
MaxRunTeams == 5
MaxHist == 1
MaxBoardTeams == 4
MaxCalls == 2
MaxClock == 2

\* ------------------------------------------------------- program constants
MatchSize == 3
TIMEOUT_MS == 5

VARIABLES teams, next_id, tournament_state, match_results, leaderboard,
          payoff_matrix_3player, tournament_task, tasks, response, sandbox,
          match_calls

vars == <<teams, next_id, tournament_state, match_results, leaderboard,
          payoff_matrix_3player, tournament_task, tasks, response, sandbox, match_calls>>

\* ------------------------------------------------------------ strategies
\* A strategy source is the set of word tokens its text contains together
\* with what running it does: the outcome of its top-level code, whether
\* that code binds the name `strategy`, what a call of strategy() does and
\* how many milliseconds the call takes.
forbidden_patterns ==
  {"import", "from", "open", "eval", "exec", "__dunder__", "os", "sys",
   "subprocess", "globals", "locals", "compile", "getattr", "setattr",
   "delattr", "hasattr", "breakpoint"}

re_search(pattern, strategy_code) == pattern \in strategy_code.tokens

Moves == {"C", "D"}

Last(h) == h[Len(h)]

\* What the call strategy(opponent1_history, opponent2_history, my_history)
\* evaluates to, for the bodies of the sample strategies and for faulty ones.
StrategyValue(body, opponent1_history, opponent2_history, my_history) ==
  CASE body = "C" -> "C"
    [] body = "D" -> "D"
    [] body = "tft" ->
         IF Len(opponent1_history) = 0 THEN "C"
         ELSE IF Last(opponent1_history) = "C" /\ Last(opponent2_history) = "C"
              THEN "C" ELSE "D"
    [] body = "grudger" ->
         IF (\E i \in 1..Len(opponent1_history) : opponent1_history[i] = "D")
            \/ (\E i \in 1..Len(opponent2_history) : opponent2_history[i] = "D")
         THEN "D" ELSE "C"
    [] body = "copy1" ->
         IF Len(opponent1_history) = 0 THEN "C" ELSE Last(opponent1_history)
    [] body = "copy2" ->
         IF Len(opponent2_history) = 0 THEN "C" ELSE Last(opponent2_history)
    [] body = "flip" ->
         IF Len(my_history) = 0 THEN "C"
         ELSE IF Last(my_history) = "C" THEN "D" ELSE "C"
    [] OTHER -> "other"

\* The flag the threading.Timer sets after TIMEOUT_MS, as read once the call
\* has returned after dur milliseconds; at exactly TIMEOUT_MS the timer thread
\* and the return race (timer_first).
timeout(dur, timer_first) ==
  dur > TIMEOUT_MS \/ (dur = TIMEOUT_MS /\ timer_first)

Outcome(result, ran_toplevel, called, returned, timed_out) ==
  [result |-> result, ran_toplevel |-> ran_toplevel, called |-> called,
   returned |-> returned, timed_out |-> timed_out]

\* Sandboxed without the final `result in ['C', 'D']` test
SandboxedUnchecked(strategy_code, opponent1_history, opponent2_history, my_history, timer_first) ==
  IF strategy_code.toplevel = "loops" THEN Outcome("none", TRUE, FALSE, FALSE, FALSE)
  ELSE IF strategy_code.toplevel = "raises" THEN Outcome("D", TRUE, FALSE, TRUE, FALSE)
  ELSE IF ~strategy_code.defines THEN Outcome("D", TRUE, FALSE, TRUE, FALSE)
  ELSE IF strategy_code.body = "loops" THEN Outcome("none", TRUE, TRUE, FALSE, TRUE)
  ELSE IF strategy_code.body = "raises" THEN Outcome("D", TRUE, TRUE, TRUE, FALSE)
  ELSE IF timeout(strategy_code.dur, timer_first) THEN Outcome("D", TRUE, TRUE, TRUE, TRUE)
  ELSE Outcome(StrategyValue(strategy_code.body, opponent1_history,
                             opponent2_history, my_history),
               TRUE, TRUE, TRUE, FALSE)

\* execute_strategy after the pattern screen: the move it returns, whether
\* exec() ran the source's top-level code, whether strategy() was called,
\* whether the function returned at all (code that loops forever never gives
\* control back) and the timer flag as it was read.
Sandboxed(strategy_code, opponent1_history, opponent2_history, my_history, timer_first) ==
  IF strategy_code.toplevel = "loops" THEN Outcome("none", TRUE, FALSE, FALSE, FALSE)
  ELSE IF strategy_code.toplevel = "raises" THEN Outcome("D", TRUE, FALSE, TRUE, FALSE)
  ELSE IF ~strategy_code.defines THEN Outcome("D", TRUE, FALSE, TRUE, FALSE)
  ELSE IF strategy_code.body = "loops" THEN Outcome("none", TRUE, TRUE, FALSE, TRUE)
  ELSE IF strategy_code.body = "raises" THEN Outcome("D", TRUE, TRUE, TRUE, FALSE)
  ELSE LET result == StrategyValue(strategy_code.body, opponent1_history,
                                   opponent2_history, my_history)
       IN IF timeout(strategy_code.dur, timer_first) THEN Outcome("D", TRUE, TRUE, TRUE, TRUE)
          ELSE IF result \in {"C", "D"} THEN Outcome(result, TRUE, TRUE, TRUE, FALSE)
          ELSE Outcome("D", TRUE, TRUE, TRUE, FALSE)

\* execute_strategy with exec() ahead of the pattern screen
ExecuteThenScreen(strategy_code, opponent1_history, opponent2_history, my_history, timer_first) ==
  LET out == Sandboxed(strategy_code, opponent1_history, opponent2_history,
                       my_history, timer_first)
  IN IF out.returned /\ \E pattern \in forbidden_patterns :
                          re_search(pattern, strategy_code)
     THEN [out EXCEPT !.result = "D"]
     ELSE out

execute_strategy(strategy_code, opponent1_history, opponent2_history, my_history, timer_first) ==
  IF \E pattern \in forbidden_patterns : re_search(pattern, strategy_code)
  THEN Outcome("D", FALSE, FALSE, TRUE, FALSE)
  ELSE Sandboxed(strategy_code, opponent1_history, opponent2_history,
                 my_history, timer_first)

\* The orders in which the timer threads of the calls in codes can finish
\* relative to the calls: only a call of exactly TIMEOUT_MS has two.
TimerRaces(codes) ==
  {f \in [DOMAIN codes -> BOOLEAN] :
     \A i \in DOMAIN codes : f[i] => codes[i].dur = TIMEOUT_MS}

Source(tokens, toplevel, defines, body, dur) ==
  [tokens |-> tokens, toplevel |-> toplevel, defines |-> defines,
   body |-> body, dur |-> dur]

AlwaysCooperate == Source({"def strategy"}, "ok", TRUE, "C", 0)
AlwaysDefect == Source({"def strategy"}, "ok", TRUE, "D", 0)
TitForTat == Source({"def strategy"}, "ok", TRUE, "tft", 0)
\* a strategy whose call takes as long as the timer: it returns 'C' or is
\* timed out, as the two threads fall
SlowCooperate == Source({"def strategy"}, "ok", TRUE, "C", TIMEOUT_MS)
\* strategies that show what they were handed: the first opponent's last
\* move, the second opponent's last move, the opposite of the own last move
CopyFirst == Source({"def strategy"}, "ok", TRUE, "copy1", 0)
CopySecond == Source({"def strategy"}, "ok", TRUE, "copy2", 0)
FlipOwn == Source({"def strategy"}, "ok", TRUE, "flip", 0)

\* A request field left out (None) or empty: update_team skips both
NoCode == Source({}, "none", FALSE, "none", 0)
NoName == ""


None == "None"

\* --------------------------------------------------------------- registry
\* Team ids stand for the uuid4 strings: next_id is the next unused one, so
\* ascending id order is the insertion order of the teams dict.
Team(name, strategy_code) ==
  [name |-> name, strategy_code |-> strategy_code, total_score |-> 0,
   cooperations |-> 0, defections |-> 0, matches_played |-> 0]

RECURSIVE SortedSeq(_)
SortedSeq(S) ==
  IF S = {} THEN <<>>
  ELSE LET lo == CHOOSE x \in S : \A y \in S : x <= y
       IN <<lo>> \o (CHOOSE rest \in {SortedSeq(T) : T \in {S \ {lo}}} : TRUE)

\* list(teams.keys())
team_keys(ts) == SortedSeq(DOMAIN ts)

\* name.strip().lower() over the names the model uses
strip_lower(name) ==
  CASE name = "T1" -> "t1"
    [] name = " t1 " -> "t1"
    [] name = "  " -> ""
    [] OTHER -> name

\* validate_strategy: the two text checks, then the test execution (whose
\* result is always a legal move when it returns at all)
validate_strategy(strategy_code, timer_first) ==
  IF \E pattern \in {"import", "from", "open", "eval", "exec", "__dunder__",
                     "os.", "sys.", "subprocess"} :
        re_search(pattern, strategy_code)
  THEN [valid |-> FALSE, message |-> "forbidden pattern", returned |-> TRUE]
  ELSE IF ~re_search("def strategy", strategy_code)
  THEN [valid |-> FALSE, message |-> "Strategy must define a strategy function",
        returned |-> TRUE]
  ELSE LET out == execute_strategy(strategy_code, <<>>, <<>>, <<>>, timer_first)
       IN IF ~out.returned
          THEN [valid |-> FALSE, message |-> "no return", returned |-> FALSE]
          ELSE IF out.result \notin {"C", "D"}
          THEN [valid |-> FALSE, message |-> "Strategy must return 'C' or 'D'",
                returned |-> TRUE]
          ELSE [valid |-> TRUE, message |-> "Strategy is valid", returned |-> TRUE]

repeated_name(name) ==
  IF strip_lower(name) = "" THEN [ok |-> FALSE, message |-> "Team name cannot be empty"]
  ELSE IF \E id \in DOMAIN teams : strip_lower(teams[id].name) = strip_lower(name)
  THEN [ok |-> FALSE, message |-> "Team name already exists"]
  ELSE [ok |-> TRUE, message |-> "Team name is valid"]

Response(cmd, code, detail) == [cmd |-> cmd, code |-> code, detail |-> detail]

\* ------------------------------------------------------------ leaderboard
\* round(coop_pct, 1) in tenths of a percent, ties to even
round1(num, den) ==
  LET q == (num * 1000) \div den
      r == (num * 1000) % den
  IN IF 2 * r > den \/ (2 * r = den /\ q % 2 = 1) THEN q + 1 ELSE q

LeaderboardEntry(team_id, team) ==
  LET total_moves == team.cooperations + team.defections
  IN [id |-> team_id, name |-> team.name, total_score |-> team.total_score,
      cooperation_pct |-> IF total_moves > 0
                          THEN round1(team.cooperations, total_moves) ELSE 0,
      matches_played |-> team.matches_played,
      cooperations |-> team.cooperations, defections |-> team.defections]

\* SortInsert putting an entry ahead of earlier entries of the same score
RECURSIVE SortInsertUnstable(_, _)
SortInsertUnstable(sorted, entry) ==
  IF sorted = <<>> THEN <<entry>>
  ELSE IF Head(sorted).total_score > entry.total_score
       THEN <<Head(sorted)>> \o
            (CHOOSE rest \in {SortInsertUnstable(tl, entry) :
                                tl \in {Tail(sorted)}} : TRUE)
       ELSE <<entry>> \o sorted

\* list.sort(key=total_score, reverse=True): stable, so an entry goes after
\* every earlier entry whose score is at least its own.  (The arguments of
\* the recursive calls are bound by quantifiers, so that each is computed
\* once.)
RECURSIVE SortInsert(_, _)
SortInsert(sorted, entry) ==
  IF sorted = <<>> THEN <<entry>>
  ELSE IF Head(sorted).total_score >= entry.total_score
       THEN <<Head(sorted)>> \o
            (CHOOSE rest \in {SortInsert(tl, entry) : tl \in {Tail(sorted)}} : TRUE)
       ELSE <<entry>> \o sorted

RECURSIVE SortByScore(_)
SortByScore(entries) ==
  IF entries = <<>> THEN <<>>
  ELSE CHOOSE sorted \in
         {SortInsert(front, entries[Len(entries)]) :
            front \in {SortByScore(init) :
                         init \in {SubSeq(entries, 1, Len(entries) - 1)}}} : TRUE

update_leaderboard(ts) ==
  LET keys == team_keys(ts)
      entries == [i \in 1..Len(keys) |-> LeaderboardEntry(keys[i], ts[keys[i]])]
  IN CHOOSE board \in
       {[i \in 1..Len(sorted) |->
           [id |-> sorted[i].id, name |-> sorted[i].name,
            total_score |-> sorted[i].total_score,
            cooperation_pct |-> sorted[i].cooperation_pct,
            matches_played |-> sorted[i].matches_played,
            cooperations |-> sorted[i].cooperations,
            defections |-> sorted[i].defections, rank |-> i]] :
          sorted \in {SortByScore(e) : e \in {entries}}} : TRUE

\* ------------------------------------------------------------ combinations
\* itertools.combinations(range(n), 3): the index triple after <<i, j, k>>
NextTriple(c, n) ==
  IF c[3] < n THEN <<c[1], c[2], c[3] + 1>>
  ELSE IF c[2] < n - 1 THEN <<c[1], c[2] + 1, c[2] + 2>>
  ELSE <<c[1] + 1, c[1] + 2, c[1] + 3>>

\* The triples from c on.  The successor is bound by a quantifier, so that it
\* is computed once before the recursion goes on with it.
RECURSIVE TriplesFrom(_, _)
TriplesFrom(c, n) ==
  IF c[1] > n - 2 THEN <<>>
  ELSE <<c>> \o (CHOOSE rest \in {TriplesFrom(next, n) :
                                   next \in {NextTriple(c, n)}} : TRUE)

\* combinations over all but the last team
CombinationsShort(team_ids) ==
  LET n == Len(team_ids) - 1
      idx == IF n < MatchSize THEN <<<<1, 2, 3>>>> ELSE TriplesFrom(<<1, 2, 3>>, n)
  IN [i \in 1..Len(idx) |->
        <<team_ids[idx[i][1]], team_ids[idx[i][2]], team_ids[idx[i][3]]>>]

\* list(combinations(team_ids, 3))
combinations(team_ids) ==
  LET n == Len(team_ids)
      idx == IF n < MatchSize THEN <<>> ELSE TriplesFrom(<<1, 2, 3>>, n)
  IN [i \in 1..Len(idx) |->
        <<team_ids[idx[i][1]], team_ids[idx[i][2]], team_ids[idx[i][3]]>>]


\* ----------------------------------------------------------- match engine
\* The locals of run_tournament and of the run_match call it awaits.  team
\* holds what run_match reads through team_a, team_b, team_c: references to
\* the team dicts, so update_team's writes show through them and a deleted
\* team's dict stays readable.
IdleLocals ==
  [ids |-> <<>>, team |-> <<>>, history |-> <<>>, score |-> <<>>,
   coops |-> <<>>, defects |-> <<>>, round_num |-> 0]

Task(pc, team_ids, idx, locals) ==
  [pc |-> pc, team_ids |-> team_ids, idx |-> idx, ids |-> locals.ids,
   team |-> locals.team, history |-> locals.history, score |-> locals.score,
   coops |-> locals.coops, defects |-> locals.defects,
   round_num |-> locals.round_num]

Alive(task) == task.pc \notin {"done", "failed", "cancelled"}

\* The task is suspended in broadcast, inside `await ws.send_json(message)`
Sending(task) ==
  task.pc \in {"send_tournament_error", "send_tournament_started",
               "send_match_started", "send_match_progress",
               "send_match_completed", "send_tournament_finished"}

\* The event loop is stuck inside a call that never returns.
Hung == response.code = 0 \/ \E t \in 1..Len(tasks) : tasks[t].pc = "blocked"

TeamRef(team) == [name |-> team.name, strategy_code |-> team.strategy_code]

\* run_match up to its loop: the three lookups and the zeroed accumulators
MatchLocals(ids) ==
  [ids |-> ids, team |-> [i \in 1..3 |-> TeamRef(teams[ids[i]])],
   history |-> [i \in 1..3 |-> <<>>], score |-> [i \in 1..3 |-> 0],
   coops |-> [i \in 1..3 |-> 0], defects |-> [i \in 1..3 |-> 0],
   round_num |-> 0]

\* The histories execute_strategy is handed for participant i:
\* A sees B and C, B sees A and C, C sees A and B
Opponent1(i) == IF i = 1 THEN 2 ELSE 1
Opponent2(i) == IF i = 3 THEN 2 ELSE 3

\* the calls with the two opponent histories in the other order
RoundOutcomesSwapped(m, timer_first) ==
  [i \in 1..3 |->
     execute_strategy(m.team[i].strategy_code, m.history[Opponent2(i)],
                      m.history[Opponent1(i)], m.history[i], timer_first[i])]

RoundOutcomes(m, timer_first) ==
  [i \in 1..3 |->
     execute_strategy(m.team[i].strategy_code, m.history[Opponent1(i)],
                      m.history[Opponent2(i)], m.history[i], timer_first[i])]

\* points looked up by the first opponent's move alone
PointsByFirstOpponent(payoff, moves, i) ==
  payoff[moves[i]][IF moves[Opponent1(i)] = "C" THEN 1 ELSE 0]

\* points for one participant: payoff_matrix_3player[move][others_cooperating]
Points(payoff, moves, i) ==
  LET cooperators_count == Cardinality({j \in 1..3 : moves[j] = "C"})
      others_cooperating == cooperators_count - (IF moves[i] = "C" THEN 1 ELSE 0)
  IN payoff[moves[i]][others_cooperating]

\* a loop body that counts cooperations only
PlayRoundDefectsUncounted(m, moves, payoff) ==
  [m EXCEPT
     !.score = [i \in 1..3 |-> m.score[i] + Points(payoff, moves, i)],
     !.coops = [i \in 1..3 |-> m.coops[i] + (IF moves[i] = "C" THEN 1 ELSE 0)],
     !.history = [i \in 1..3 |-> Append(m.history[i], moves[i])],
     !.round_num = m.round_num + 1]

\* one pass of run_match's loop body, the three moves given
PlayRound(m, moves, payoff) ==
  [m EXCEPT
     !.score = [i \in 1..3 |-> m.score[i] + Points(payoff, moves, i)],
     !.coops = [i \in 1..3 |-> m.coops[i] + (IF moves[i] = "C" THEN 1 ELSE 0)],
     !.defects = [i \in 1..3 |-> m.defects[i] + (IF moves[i] = "C" THEN 0 ELSE 1)],
     !.history = [i \in 1..3 |-> Append(m.history[i], moves[i])],
     !.round_num = m.round_num + 1]

\* a run_match that reports each team's running total instead of the points
\* of this match
MatchResultFromTotals(m) ==
  [team_a_id |-> m.ids[1], team_a_name |-> m.team[1].name,
   team_b_id |-> m.ids[2], team_b_name |-> m.team[2].name,
   team_c_id |-> m.ids[3], team_c_name |-> m.team[3].name,
   team_a_score |-> teams[m.ids[1]].total_score + m.score[1],
   team_b_score |-> teams[m.ids[2]].total_score + m.score[2],
   team_c_score |-> teams[m.ids[3]].total_score + m.score[3],
   team_a_cooperations |-> m.coops[1], team_a_defections |-> m.defects[1],
   team_b_cooperations |-> m.coops[2], team_b_defections |-> m.defects[2],
   team_c_cooperations |-> m.coops[3], team_c_defections |-> m.defects[3],
   rounds |-> Rounds]

\* the MatchResult run_match returns, less its two default_factory fields
MatchResult(m) ==
  [team_a_id |-> m.ids[1], team_a_name |-> m.team[1].name,
   team_b_id |-> m.ids[2], team_b_name |-> m.team[2].name,
   team_c_id |-> m.ids[3], team_c_name |-> m.team[3].name,
   team_a_score |-> m.score[1], team_b_score |-> m.score[2],
   team_c_score |-> m.score[3],
   team_a_cooperations |-> m.coops[1], team_a_defections |-> m.defects[1],
   team_b_cooperations |-> m.coops[2], team_b_defections |-> m.defects[2],
   team_c_cooperations |-> m.coops[3], team_c_defections |-> m.defects[3],
   rounds |-> Rounds]

\* "Update team stats": the three += blocks in order; teams[id] of a deleted
\* team raises KeyError and the blocks after it are not reached.  upto is the
\* number of blocks that ran.
StatsBlocksRun(m) ==
  IF m.ids[1] \notin DOMAIN teams THEN 0
  ELSE IF m.ids[2] \notin DOMAIN teams THEN 1
  ELSE IF m.ids[3] \notin DOMAIN teams THEN 2
  ELSE 3

AddStats(m, upto) ==
  [id \in DOMAIN teams |->
     IF \E i \in 1..upto : m.ids[i] = id
     THEN LET i == CHOOSE i \in 1..upto : m.ids[i] = id
          IN [teams[id] EXCEPT
                !.total_score = @ + m.score[i],
                !.cooperations = @ + m.coops[i],
                !.defections = @ + m.defects[i],
                !.matches_played = @ + 1]
     ELSE teams[id]]


\* -------------------------------------------------------------- scheduler
NoMatch == [team_a |-> None, team_b |-> None, team_c |-> None, match_number |-> 0]

InitialTournamentState(status) ==
  [status |-> status, current_match |-> NoMatch, matches_completed |-> <<>>,
   total_matches |-> 0, current_match_index |-> 0]

SetTask(t, task) == tasks' = [tasks EXCEPT ![t] = task]

\* LoopTop without the `while tournament_state['status'] == 'paused'` loop
LoopTopNoPause(t, team_ids, idx, ts) ==
  LET matches == combinations(team_ids) IN
  IF idx >= Len(matches) \/ ts.status = "idle"
  THEN /\ tournament_state' = [ts EXCEPT !.status = "finished",
                                         !.current_match = NoMatch]
       /\ SetTask(t, Task("send_tournament_finished", <<>>, 0, IdleLocals))
  ELSE LET ids == matches[idx + 1] IN
       IF \A i \in 1..3 : ids[i] \in DOMAIN teams
       THEN /\ tournament_state' =
                 [ts EXCEPT !.current_match_index = idx,
                            !.current_match =
                               [team_a |-> teams[ids[1]].name,
                                team_b |-> teams[ids[2]].name,
                                team_c |-> teams[ids[3]].name,
                                match_number |-> idx + 1]]
            /\ SetTask(t, Task("send_match_started", team_ids, idx, IdleLocals))
       ELSE /\ tournament_state' = [ts EXCEPT !.current_match_index = idx]
            /\ SetTask(t, Task("failed", <<>>, 0, IdleLocals))

\* LoopTop leaving the loop when paused, as it does when idle
LoopTopPausedBreaks(t, team_ids, idx, ts) ==
  LET matches == combinations(team_ids) IN
  IF idx >= Len(matches) \/ ts.status \in {"idle", "paused"}
  THEN /\ tournament_state' = [ts EXCEPT !.status = "finished",
                                         !.current_match = NoMatch]
       /\ SetTask(t, Task("send_tournament_finished", <<>>, 0, IdleLocals))
  ELSE LET ids == matches[idx + 1] IN
       IF \A i \in 1..3 : ids[i] \in DOMAIN teams
       THEN /\ tournament_state' =
                 [ts EXCEPT !.current_match_index = idx,
                            !.current_match =
                               [team_a |-> teams[ids[1]].name,
                                team_b |-> teams[ids[2]].name,
                                team_c |-> teams[ids[3]].name,
                                match_number |-> idx + 1]]
            /\ SetTask(t, Task("send_match_started", team_ids, idx, IdleLocals))
       ELSE /\ tournament_state' = [ts EXCEPT !.current_match_index = idx]
            /\ SetTask(t, Task("failed", <<>>, 0, IdleLocals))

\* run_tournament from the head of its for loop, at position idx of matches,
\* up to the next suspending await; ts is tournament_state as the code before
\* it left it.
LoopTop(t, team_ids, idx, ts) ==
  LET matches == combinations(team_ids) IN
  IF idx >= Len(matches) \/ ts.status = "idle"
  THEN \* loop exhausted, or left by break: the code after the loop
       /\ tournament_state' = [ts EXCEPT !.status = "finished",
                                         !.current_match = NoMatch]
       /\ SetTask(t, Task("send_tournament_finished", <<>>, 0, IdleLocals))
  ELSE IF ts.status = "paused"
  THEN /\ tournament_state' = ts
       /\ SetTask(t, Task("sleep_paused", team_ids, idx, IdleLocals))
  ELSE LET ids == matches[idx + 1] IN
       IF \A i \in 1..3 : ids[i] \in DOMAIN teams
       THEN /\ tournament_state' =
                 [ts EXCEPT !.current_match_index = idx,
                            !.current_match =
                               [team_a |-> teams[ids[1]].name,
                                team_b |-> teams[ids[2]].name,
                                team_c |-> teams[ids[3]].name,
                                match_number |-> idx + 1]]
            /\ SetTask(t, Task("send_match_started", team_ids, idx, IdleLocals))
       ELSE \* KeyError building current_match
            /\ tournament_state' = [ts EXCEPT !.current_match_index = idx]
            /\ SetTask(t, Task("failed", <<>>, 0, IdleLocals))

\* run_tournament from its first line to its first broadcast
run_tournament_begin(t) ==
  /\ ~Hung
  /\ tasks[t].pc = "created"
  /\ LET team_ids == team_keys(teams) IN
     IF Len(team_ids) < 3
     THEN /\ tournament_state' = [tournament_state EXCEPT !.status = "idle"]
          /\ SetTask(t, Task("send_tournament_error", <<>>, 0, IdleLocals))
     ELSE /\ tournament_state' =
               [tournament_state EXCEPT
                  !.total_matches = Len(combinations(team_ids)),
                  !.status = "running"]
          /\ SetTask(t, Task("send_tournament_started", team_ids, 0, IdleLocals))
  /\ UNCHANGED <<teams, next_id, match_results, leaderboard,
                 payoff_matrix_3player, tournament_task, response, sandbox, match_calls>>

\* waking from asyncio.sleep(0.5) in the paused loop
run_tournament_poll(t) ==
  /\ ~Hung
  /\ tasks[t].pc = "sleep_paused"
  /\ LoopTop(t, tasks[t].team_ids, tasks[t].idx, tournament_state)
  /\ UNCHANGED <<teams, next_id, match_results, leaderboard,
                 payoff_matrix_3player, tournament_task, response, sandbox, match_calls>>

\* one round of run_match, from the task's locals m
RoundStep(t, m) ==
  \E timer_first \in TimerRaces([i \in 1..3 |-> m.team[i].strategy_code]) :
    LET out == RoundOutcomes(m, timer_first) IN
    IF \A i \in 1..3 : out[i].returned
    THEN SetTask(t, Task("send_match_progress", tasks[t].team_ids, tasks[t].idx,
                         PlayRound(m, [i \in 1..3 |-> out[i].result],
                                   payoff_matrix_3player)))
    ELSE SetTask(t, Task("blocked", tasks[t].team_ids, tasks[t].idx, m))

\* waking from asyncio.sleep(0.8): run_match starts and plays its first round
run_match_begin(t) ==
  /\ ~Hung
  /\ tasks[t].pc = "sleep_match_started"
  /\ \E ids \in {combinations(tasks[t].team_ids)[tasks[t].idx + 1]} :
       IF \A i \in 1..3 : ids[i] \in DOMAIN teams
       THEN \E m \in {MatchLocals(ids)} : RoundStep(t, m)
       ELSE SetTask(t, Task("failed", <<>>, 0, IdleLocals))
  /\ UNCHANGED <<teams, next_id, tournament_state, match_results, leaderboard,
                 payoff_matrix_3player, tournament_task, response, sandbox, match_calls>>

\* waking from asyncio.sleep(0.3) with rounds left
run_match_round(t) ==
  /\ ~Hung
  /\ tasks[t].pc = "sleep_round"
  /\ tasks[t].round_num < Rounds
  /\ RoundStep(t, [f \in DOMAIN IdleLocals |-> tasks[t][f]])
  /\ UNCHANGED <<teams, next_id, tournament_state, match_results, leaderboard,
                 payoff_matrix_3player, tournament_task, response, sandbox, match_calls>>

\* run_match_finish without the call of update_leaderboard
FinishKeepsLeaderboard(t) ==
  /\ ~Hung
  /\ tasks[t].pc = "sleep_round"
  /\ tasks[t].round_num = Rounds
  /\ LET m == [f \in DOMAIN IdleLocals |-> tasks[t][f]]
         upto == StatsBlocksRun(m)
         result == MatchResult(m)
     IN /\ teams' = AddStats(m, upto)
        /\ IF upto = 3
           THEN /\ match_results' = Append(match_results, result)
                /\ tournament_state' =
                     [tournament_state EXCEPT
                        !.matches_completed = Append(@, result)]
                /\ SetTask(t, Task("send_match_completed", tasks[t].team_ids,
                                   tasks[t].idx, IdleLocals))
           ELSE /\ SetTask(t, Task("failed", <<>>, 0, IdleLocals))
                /\ UNCHANGED <<match_results, tournament_state>>
  /\ UNCHANGED <<next_id, leaderboard, payoff_matrix_3player, tournament_task,
                 response, sandbox, match_calls>>

\* waking from the last asyncio.sleep(0.3): the stats update and the result,
\* then run_tournament's bookkeeping up to asyncio.sleep(1.0)
run_match_finish(t) ==
  /\ ~Hung
  /\ tasks[t].pc = "sleep_round"
  /\ tasks[t].round_num = Rounds
  /\ LET m == [f \in DOMAIN IdleLocals |-> tasks[t][f]]
         upto == StatsBlocksRun(m)
         result == MatchResult(m)
     IN /\ teams' = AddStats(m, upto)
        /\ IF upto = 3
           THEN /\ match_results' = Append(match_results, result)
                /\ tournament_state' =
                     [tournament_state EXCEPT
                        !.matches_completed = Append(@, result)]
                /\ leaderboard' = update_leaderboard(teams')
                /\ SetTask(t, Task("send_match_completed", tasks[t].team_ids,
                                   tasks[t].idx, IdleLocals))
           ELSE /\ SetTask(t, Task("failed", <<>>, 0, IdleLocals))
                /\ UNCHANGED <<match_results, tournament_state, leaderboard>>
  /\ UNCHANGED <<next_id, payoff_matrix_3player, tournament_task, response, sandbox, match_calls>>

\* broadcast returns (the sends done, or a send's exception swallowed by its
\* bare except) and the task runs on to its next suspension
broadcast_done(t) ==
  /\ ~Hung
  /\ Sending(tasks[t])
  /\ CASE tasks[t].pc = "send_tournament_started" ->
            LoopTop(t, tasks[t].team_ids, 0, tournament_state)
       [] tasks[t].pc \in {"send_tournament_error", "send_tournament_finished"} ->
            /\ SetTask(t, Task("done", <<>>, 0, IdleLocals))
            /\ UNCHANGED tournament_state
       [] tasks[t].pc = "send_match_started" ->
            /\ SetTask(t, [tasks[t] EXCEPT !.pc = "sleep_match_started"])
            /\ UNCHANGED tournament_state
       [] tasks[t].pc = "send_match_progress" ->
            /\ SetTask(t, [tasks[t] EXCEPT !.pc = "sleep_round"])
            /\ UNCHANGED tournament_state
       [] tasks[t].pc = "send_match_completed" ->
            /\ SetTask(t, [tasks[t] EXCEPT !.pc = "sleep_match_completed"])
            /\ UNCHANGED tournament_state
  /\ UNCHANGED <<teams, next_id, match_results, leaderboard,
                 payoff_matrix_3player, tournament_task, response, sandbox, match_calls>>

\* waking from asyncio.sleep(1.0): the next iteration of the for loop
run_tournament_next(t) ==
  /\ ~Hung
  /\ tasks[t].pc = "sleep_match_completed"
  /\ LoopTop(t, tasks[t].team_ids, tasks[t].idx + 1, tournament_state)
  /\ UNCHANGED <<teams, next_id, match_results, leaderboard,
                 payoff_matrix_3player, tournament_task, response, sandbox, match_calls>>


\* --------------------------------------------------------------- commands
NoResponse(cmd) == Response(cmd, 0, "handler never returns")

\* POST /teams
create_team(name, strategy_code) ==
  /\ ~Hung
  /\ next_id <= MaxTeams
  /\ \E race \in TimerRaces(<<strategy_code>>) :
       LET v == validate_strategy(strategy_code, race[1])
           n == repeated_name(name)
       IN IF ~v.returned
          THEN /\ response' = NoResponse("create_team")
               /\ UNCHANGED <<teams, next_id>>
          ELSE IF ~v.valid
          THEN /\ response' = Response("create_team", 400, v.message)
               /\ UNCHANGED <<teams, next_id>>
          ELSE IF ~n.ok
          THEN /\ response' = Response("create_team", 400, n.message)
               /\ UNCHANGED <<teams, next_id>>
          ELSE /\ teams' = [id \in DOMAIN teams \cup {next_id} |->
                              IF id = next_id THEN Team(name, strategy_code)
                              ELSE teams[id]]
               /\ next_id' = next_id + 1
               /\ response' = Response("create_team", 200, "created")
  /\ UNCHANGED <<tournament_state, match_results, leaderboard,
                 payoff_matrix_3player, tournament_task, tasks, sandbox, match_calls>>

\* The team dict behind team_id after update_team's writes; a None or empty
\* field is skipped.
UpdatedRef(ref, name, strategy_code) ==
  [ref EXCEPT !.strategy_code = IF strategy_code = NoCode THEN @ ELSE strategy_code,
              !.name = IF name = NoName THEN @ ELSE name]

\* PUT /teams/{team_id}
update_team(team_id, name, strategy_code) ==
  /\ ~Hung
  /\ \E race \in TimerRaces(<<strategy_code>>) :
       LET v == IF strategy_code = NoCode
                THEN [valid |-> TRUE, message |-> "", returned |-> TRUE]
                ELSE validate_strategy(strategy_code, race[1])
       IN IF team_id \notin DOMAIN teams
          THEN /\ response' = Response("update_team", 404, "Team not found")
               /\ UNCHANGED <<teams, tasks>>
          ELSE IF ~v.returned
          THEN /\ response' = NoResponse("update_team")
               /\ UNCHANGED <<teams, tasks>>
          ELSE IF ~v.valid
          THEN /\ response' = Response("update_team", 400, v.message)
               /\ UNCHANGED <<teams, tasks>>
          ELSE /\ teams' = [teams EXCEPT ![team_id] =
                              UpdatedRef(@, name, strategy_code)]
               /\ tasks' = [t \in 1..Len(tasks) |->
                              [tasks[t] EXCEPT !.team =
                                 [i \in DOMAIN @ |->
                                    IF tasks[t].ids[i] = team_id
                                    THEN UpdatedRef(@[i], name, strategy_code)
                                    ELSE @[i]]]]
               /\ response' = Response("update_team", 200, "updated")
  /\ UNCHANGED <<next_id, tournament_state, match_results, leaderboard,
                 payoff_matrix_3player, tournament_task, sandbox, match_calls>>

\* DELETE /teams/{team_id}
delete_team(team_id) ==
  /\ ~Hung
  /\ IF team_id \notin DOMAIN teams
     THEN /\ response' = Response("delete_team", 404, "Team not found")
          /\ UNCHANGED teams
     ELSE /\ teams' = [id \in DOMAIN teams \ {team_id} |-> teams[id]]
          /\ response' = Response("delete_team", 200, "deleted")
  /\ UNCHANGED <<next_id, tournament_state, match_results, leaderboard,
                 payoff_matrix_3player, tournament_task, tasks, sandbox, match_calls>>

\* "Reset stats" of start_tournament and reset_tournament
ZeroStats ==
  [id \in DOMAIN teams |->
     [teams[id] EXCEPT !.total_score = 0, !.cooperations = 0,
                       !.defections = 0, !.matches_played = 0]]

\* start_tournament asking for two teams only
StartErrorTwo ==
  IF tournament_state.status = "running" THEN "Tournament already running"
  ELSE IF Cardinality(DOMAIN teams) < 2 THEN "Need at least 3 teams to start"
  ELSE None

\* The guard of start_tournament: the detail of the error it raises, or None
StartError ==
  IF tournament_state.status = "running" THEN "Tournament already running"
  ELSE IF Cardinality(DOMAIN teams) < 3 THEN "Need at least 3 teams to start"
  ELSE None

\* POST /tournament/start
start_tournament ==
  /\ ~Hung
  /\ IF StartError # None
     THEN /\ response' = Response("start_tournament", 400, StartError)
          /\ UNCHANGED <<teams, match_results, tournament_state,
                         tournament_task, tasks>>
     ELSE /\ Len(tasks) < MaxTasks
          /\ teams' = ZeroStats
          /\ match_results' = <<>>
          /\ tournament_state' = InitialTournamentState("running")
          /\ tasks' = Append(tasks, Task("created", <<>>, 0, IdleLocals))
          /\ tournament_task' = Len(tasks) + 1
          /\ response' = Response("start_tournament", 200, "Tournament started")
  /\ UNCHANGED <<next_id, leaderboard, payoff_matrix_3player, sandbox, match_calls>>

\* pause_tournament without its status test
PauseAlways ==
  /\ ~Hung
  /\ tournament_state' = [tournament_state EXCEPT !.status = "paused"]
  /\ response' = Response("pause_tournament", 200, "paused")
  /\ UNCHANGED <<teams, next_id, match_results, leaderboard,
                 payoff_matrix_3player, tournament_task, tasks, sandbox, match_calls>>

\* POST /tournament/pause
pause_tournament ==
  /\ ~Hung
  /\ IF tournament_state.status # "running"
     THEN /\ response' = Response("pause_tournament", 400, "Tournament not running")
          /\ UNCHANGED tournament_state
     ELSE /\ tournament_state' = [tournament_state EXCEPT !.status = "paused"]
          /\ response' = Response("pause_tournament", 200, "paused")
  /\ UNCHANGED <<teams, next_id, match_results, leaderboard,
                 payoff_matrix_3player, tournament_task, tasks, sandbox, match_calls>>

\* POST /tournament/resume
resume_tournament ==
  /\ ~Hung
  /\ IF tournament_state.status # "paused"
     THEN /\ response' = Response("resume_tournament", 400, "Tournament not paused")
          /\ UNCHANGED tournament_state
     ELSE /\ tournament_state' = [tournament_state EXCEPT !.status = "running"]
          /\ response' = Response("resume_tournament", 200, "resumed")
  /\ UNCHANGED <<teams, next_id, match_results, leaderboard,
                 payoff_matrix_3player, tournament_task, tasks, sandbox, match_calls>>

\* tournament_task.cancel().  A task suspended in a sleep, or not yet
\* started, ends there with CancelledError before any more of its code runs.
\* A task suspended in broadcast has the CancelledError raised inside
\* `try: await ws.send_json(message)`, where the bare `except:` catches it:
\* the task carries on.
Cancel(task) ==
  IF Sending(task) THEN task ELSE Task("cancelled", <<>>, 0, IdleLocals)

\* reset_tournament without `leaderboard = []`
ResetKeepsLeaderboard ==
  /\ ~Hung
  /\ tasks' = IF tournament_task # 0 /\ Alive(tasks[tournament_task])
              THEN [tasks EXCEPT ![tournament_task] = Cancel(@)]
              ELSE tasks
  /\ teams' = ZeroStats
  /\ match_results' = <<>>
  /\ tournament_state' = InitialTournamentState("idle")
  /\ response' = Response("reset_tournament", 200, "reset")
  /\ UNCHANGED <<next_id, leaderboard, payoff_matrix_3player, tournament_task,
                 sandbox, match_calls>>

\* POST /tournament/reset
reset_tournament ==
  /\ ~Hung
  /\ tasks' = IF tournament_task # 0 /\ Alive(tasks[tournament_task])
              THEN [tasks EXCEPT ![tournament_task] = Cancel(@)]
              ELSE tasks
  /\ teams' = ZeroStats
  /\ match_results' = <<>>
  /\ leaderboard' = <<>>
  /\ tournament_state' = InitialTournamentState("idle")
  /\ response' = Response("reset_tournament", 200, "reset")
  /\ UNCHANGED <<next_id, payoff_matrix_3player, tournament_task, sandbox, match_calls>>


\* PUT /payoff-matrix: the six integers of a PayoffMatrixUpdate replace the
\* table, whatever the tournament is doing
PayoffMatrixUpdate(c_2coop, c_1coop, c_0coop, d_2coop, d_1coop, d_0coop) ==
  [c_2coop |-> c_2coop, c_1coop |-> c_1coop, c_0coop |-> c_0coop,
   d_2coop |-> d_2coop, d_1coop |-> d_1coop, d_0coop |-> d_0coop]

\* the dict update_payoff_matrix builds from the request
PayoffTable(matrix) ==
  [C |-> [k \in 0..2 |-> CASE k = 2 -> matrix.c_2coop
                           [] k = 1 -> matrix.c_1coop
                           [] OTHER -> matrix.c_0coop],
   D |-> [k \in 0..2 |-> CASE k = 2 -> matrix.d_2coop
                           [] k = 1 -> matrix.d_1coop
                           [] OTHER -> matrix.d_0coop]]

update_payoff_matrix(matrix) ==
  /\ ~Hung
  /\ payoff_matrix_3player' = PayoffTable(matrix)
  /\ response' = Response("update_payoff_matrix", 200, "updated")
  /\ UNCHANGED <<teams, next_id, tournament_state, match_results, leaderboard,
                 tournament_task, tasks, sandbox, match_calls>>


\* ---------------------------------------------------------- specification
DefaultPayoff ==
  [C |-> [k \in 0..2 |-> CASE k = 2 -> 5 [] k = 1 -> 3 [] OTHER -> 0],
   D |-> [k \in 0..2 |-> CASE k = 2 -> 7 [] k = 1 -> 4 [] OTHER -> 1]]

SandboxIdle ==
  [pc |-> "idle", strategy_code |-> AlwaysCooperate, histories |-> <<>>,
   out |-> Outcome("none", FALSE, FALSE, FALSE, FALSE)]

\* The module-level state of server.py after import
Init ==
  /\ teams = [id \in {} |-> Team("", AlwaysCooperate)]
  /\ next_id = 1
  /\ tournament_state = InitialTournamentState("idle")
  /\ match_results = <<>>
  /\ leaderboard = <<>>
  /\ payoff_matrix_3player = DefaultPayoff
  /\ tournament_task = 0
  /\ tasks = <<>>
  /\ response = Response("none", 200, "")
  /\ sandbox = SandboxIdle
  /\ match_calls = <<>>

\* The requests of the scheduler specification: the i-th team created is
\* named t<i>, odd ones registering "Always Cooperate" and even ones "Always
\* Defect".
TeamName(i) == "t" \o ToString(i)
SchedStrategy(i) == IF i % 2 = 1 THEN AlwaysCooperate ELSE AlwaysDefect

Next ==
  \/ create_team(TeamName(next_id), SchedStrategy(next_id))
  \/ \E team_id \in 1..MaxTeams : delete_team(team_id)
  \/ start_tournament
  \/ pause_tournament
  \/ resume_tournament
  \/ reset_tournament
  \/ \E t \in 1..Len(tasks) : run_tournament_begin(t)
  \/ \E t \in 1..Len(tasks) : run_tournament_poll(t)
  \/ \E t \in 1..Len(tasks) : run_match_begin(t)
  \/ \E t \in 1..Len(tasks) : run_match_round(t)
  \/ \E t \in 1..Len(tasks) : run_match_finish(t)
  \/ \E t \in 1..Len(tasks) : run_tournament_next(t)
  \/ \E t \in 1..Len(tasks) : broadcast_done(t)

Spec == Init /\ [][Next]_vars


\* ------------------------------------------------------ registry alone
\* Team management with no tournament: names in several spellings, and
\* sources the validator accepts or rejects.
RegistryNames == {"t1", "T1", " t1 ", "t2", "t3", "  ", NoName}
RegistrySources ==
  {AlwaysCooperate, AlwaysDefect, NoCode,
   Source({"def strategy", "getattr"}, "ok", TRUE, "C", 0),
   Source({"def strategy", "import"}, "ok", TRUE, "C", 0),
   Source({"cost"}, "ok", FALSE, "none", 0)}

RegistryNext ==
  \/ \E name \in RegistryNames, strategy_code \in RegistrySources :
       create_team(name, strategy_code)
  \/ \E team_id \in 1..MaxTeams, name \in RegistryNames,
        strategy_code \in RegistrySources :
       update_team(team_id, name, strategy_code)
  \/ \E team_id \in 1..MaxTeams : delete_team(team_id)

SpecRegistry == Init /\ [][RegistryNext]_vars

\* ------------------------------------------------- uninterrupted runs
\* The registry after K accepted create_team requests (K from 3 up to
\* MaxRunTeams), driven by start commands and the run itself only.
Registered(K) ==
  [id \in 1..K |-> Team(TeamName(id), SchedStrategy(id))]

RunInit ==
  /\ \E K \in MatchSize..MaxRunTeams :
       /\ teams = Registered(K)
       /\ next_id = K + 1
  /\ tournament_state = InitialTournamentState("idle")
  /\ match_results = <<>>
  /\ leaderboard = <<>>
  /\ payoff_matrix_3player = DefaultPayoff
  /\ tournament_task = 0
  /\ tasks = <<>>
  /\ response = Response("create_team", 200, "created")
  /\ sandbox = SandboxIdle
  /\ match_calls = <<>>

RunNext ==
  \/ start_tournament
  \/ \E t \in 1..Len(tasks) : run_tournament_begin(t)
  \/ \E t \in 1..Len(tasks) : run_match_begin(t)
  \/ \E t \in 1..Len(tasks) : run_match_round(t)
  \/ \E t \in 1..Len(tasks) : run_match_finish(t)
  \/ \E t \in 1..Len(tasks) : run_tournament_next(t)
  \/ \E t \in 1..Len(tasks) : broadcast_done(t)

SpecRun == RunInit /\ [][RunNext]_vars

\* ------------------------------------------------- one run, with pauses
\* A registry of K teams, one start, and pause and resume commands arriving
\* at any of the run's suspension points.  The event loop resumes a task
\* whose sleep or send has completed, which is the weak fairness of its steps.
StartRun == tasks = <<>> /\ start_tournament

TaskStep ==
  \E t \in 1..Len(tasks) :
    \/ run_tournament_begin(t)
    \/ run_tournament_poll(t)
    \/ run_match_begin(t)
    \/ run_match_round(t)
    \/ run_match_finish(t)
    \/ run_tournament_next(t)
    \/ broadcast_done(t)

PauseNext ==
  \/ StartRun
  \/ pause_tournament
  \/ resume_tournament
  \/ TaskStep

SpecPause == RunInit /\ [][PauseNext]_vars /\ WF_vars(TaskStep)

\* ------------------------------------------- runs with payoff updates
\* Uninterrupted runs during and between which the payoff table is
\* replaced: by the defaults of PayoffMatrixUpdate, by a table of other
\* positive values and by one with negative entries, all of which the model
\* class accepts (its fields are plain ints).
PayoffUpdates ==
  {PayoffMatrixUpdate(5, 3, 0, 7, 4, 1),
   PayoffMatrixUpdate(3, 2, 1, 4, 3, 2),
   PayoffMatrixUpdate(1, -1, -2, 2, 1, -1)}

PayoffNext ==
  \/ RunNext
  \/ \E matrix \in PayoffUpdates : update_payoff_matrix(matrix)

\* three teams: every run is the one match among them
PayoffInit == RunInit /\ Cardinality(DOMAIN teams) = MatchSize

SpecPayoff == PayoffInit /\ [][PayoffNext]_vars

\* ------------------------------------------------ runs and resets
\* Three teams, runs started, played and reset, never paused: every start
\* that is accepted finds the status idle or finished.
RestartNext ==
  \/ RunNext
  \/ reset_tournament

SpecRestart == PayoffInit /\ [][RestartNext]_vars

\* ------------------------------------------------ leaderboard alone
\* update_leaderboard applied to a registry of up to MaxBoardTeams teams,
\* some ids deleted, with total scores that tie and differ (negative ones
\* included, as a table with negative entries produces).
BoardScores == {-1, 0, 2}

BoardTeam(id, total_score) ==
  [Team(TeamName(id), SchedStrategy(id)) EXCEPT
     !.total_score = total_score, !.cooperations = id,
     !.defections = 2, !.matches_played = 1]

BoardInit ==
  /\ \E ids \in SUBSET (1..MaxBoardTeams) :
       \E score \in [ids -> BoardScores] :
         teams = [id \in ids |-> BoardTeam(id, score[id])]
  /\ next_id = MaxBoardTeams + 1
  /\ tournament_state = InitialTournamentState("idle")
  /\ match_results = <<>>
  /\ leaderboard = <<>>
  /\ payoff_matrix_3player = DefaultPayoff
  /\ tournament_task = 0
  /\ tasks = <<>>
  /\ response = Response("none", 200, "")
  /\ sandbox = SandboxIdle
  /\ match_calls = <<>>

BoardNext ==
  /\ leaderboard' = update_leaderboard(teams)
  /\ UNCHANGED <<teams, next_id, tournament_state, match_results,
                 payoff_matrix_3player, tournament_task, tasks, response,
                 sandbox, match_calls>>

SpecBoard == BoardInit /\ [][BoardNext]_vars

\* ------------------------------------------------ repeated matches
\* run_match called again and again for the same three teams under one
\* payoff table, each call played to its end: match_calls keeps the
\* MatchResult each call returned, with the id the MatchResult model gave it
\* (a uuid4, which never repeats: here the number of the call) and the
\* timestamp (the wall clock at that moment, any of its values).  The third
\* team may register a strategy that runs as long as the timer.
MatchStrategies ==
  {AlwaysCooperate, AlwaysDefect, TitForTat, SlowCooperate}

\* run_match's loop from the locals m to the last round; races gives, round
\* by round, how the timer threads fall
RECURSIVE PlayRounds(_, _)
PlayRounds(m, races) ==
  IF m.round_num >= Rounds THEN m
  ELSE CHOOSE last \in
         {PlayRounds(next, races) :
            next \in {PlayRound(m,
                                [i \in 1..3 |->
                                   RoundOutcomes(m, races[m.round_num + 1])[i].result],
                                payoff_matrix_3player)}} : TRUE

\* MatchResult(...) as pydantic builds it: the fields run_match passes and
\* the two default_factory fields
MatchResultRecord(m, id, timestamp) ==
  [id |-> id, timestamp |-> timestamp, played |-> MatchResult(m)]

MatchInit ==
  /\ \E strategy_code \in [1..MatchSize -> MatchStrategies] :
       /\ \A id \in 1..(MatchSize - 1) : strategy_code[id] # SlowCooperate
       /\ teams = [id \in 1..MatchSize |-> Team(TeamName(id), strategy_code[id])]
  /\ next_id = MatchSize + 1
  /\ tournament_state = InitialTournamentState("idle")
  /\ match_results = <<>>
  /\ leaderboard = <<>>
  /\ \E matrix \in PayoffUpdates : payoff_matrix_3player = PayoffTable(matrix)
  /\ tournament_task = 0
  /\ tasks = <<>>
  /\ response = Response("none", 200, "")
  /\ sandbox = SandboxIdle
  /\ match_calls = <<>>

run_match_call ==
  /\ Len(match_calls) < MaxCalls
  /\ \E m0 \in {MatchLocals(team_keys(teams))} :
     \E races \in [1..Rounds ->
                     TimerRaces([i \in 1..3 |-> m0.team[i].strategy_code])] :
     \E id \in {Len(match_calls) + 1} :
     \E timestamp \in 1..MaxClock :
     \E m \in {PlayRounds(m0, races)} :
       /\ teams' = AddStats(m, 3)
       /\ match_calls' =
            Append(match_calls, MatchResultRecord(m, id, timestamp))
  /\ UNCHANGED <<next_id, tournament_state, match_results, leaderboard,
                 payoff_matrix_3player, tournament_task, tasks, response,
                 sandbox>>

MatchNext == run_match_call

SpecMatch == MatchInit /\ [][MatchNext]_vars

\* ------------------------------------------------ one match, round by round
\* A tournament over three teams with any of the sample strategies and any
\* of the payoff tables installed before it starts: its one match is played
\* round by round by the task, whose locals are in tasks.
SpecPlay == MatchInit /\ [][RunNext]_vars

\* ------------------------------------------------ what a strategy is handed
\* A tournament over three teams whose strategies answer with what they
\* were handed, or always defect.
ProbeStrategies == {CopyFirst, CopySecond, FlipOwn, AlwaysDefect}

ProbeInit ==
  /\ \E strategy_code \in [1..MatchSize -> ProbeStrategies] :
       teams = [id \in 1..MatchSize |-> Team(TeamName(id), strategy_code[id])]
  /\ next_id = MatchSize + 1
  /\ tournament_state = InitialTournamentState("idle")
  /\ match_results = <<>>
  /\ leaderboard = <<>>
  /\ payoff_matrix_3player = DefaultPayoff
  /\ tournament_task = 0
  /\ tasks = <<>>
  /\ response = Response("create_team", 200, "created")
  /\ sandbox = SandboxIdle
  /\ match_calls = <<>>

SpecProbe == ProbeInit /\ [][RunNext]_vars

\* ------------------------------------------------------ sandbox calls
\* One call of execute_strategy on a source and three histories of equal
\* length, as run_match and validate_strategy make it.
Forbidden1 == {{p} : p \in forbidden_patterns} \cup {{}, {"cost"}}
SandboxSources ==
  {Source(tokens \cup words, toplevel, defines, body, dur) :
     tokens \in Forbidden1, words \in {{"def strategy"}},
     toplevel \in {"ok", "raises", "loops"}, defines \in BOOLEAN,
     body \in {"C", "D", "tft", "other", "raises", "loops"},
     dur \in {0, TIMEOUT_MS - 1, TIMEOUT_MS, TIMEOUT_MS + 1}}

Histories ==
  UNION {[1..3 -> [1..n -> Moves]] : n \in 0..MaxHist}

SandboxInit ==
  /\ teams = [id \in {} |-> Team("", AlwaysCooperate)]
  /\ next_id = 1
  /\ tournament_state = InitialTournamentState("idle")
  /\ match_results = <<>>
  /\ leaderboard = <<>>
  /\ payoff_matrix_3player = DefaultPayoff
  /\ tournament_task = 0
  /\ tasks = <<>>
  /\ response = Response("none", 200, "")
  /\ \E strategy_code \in SandboxSources, histories \in Histories :
       sandbox = [pc |-> "calling", strategy_code |-> strategy_code,
                  histories |-> histories,
                  out |-> Outcome("none", FALSE, FALSE, FALSE, FALSE)]
  /\ match_calls = <<>>

\* The call: it ends "returned", or stays "running" for ever
SandboxCall ==
  /\ sandbox.pc = "calling"
  /\ \E race \in TimerRaces(<<sandbox.strategy_code>>) :
       LET out == execute_strategy(sandbox.strategy_code, sandbox.histories[1],
                                   sandbox.histories[2], sandbox.histories[3],
                                   race[1])
       IN sandbox' = [sandbox EXCEPT
                        !.pc = IF out.returned THEN "returned" ELSE "running",
                        !.out = out]
  /\ UNCHANGED <<teams, next_id, tournament_state, match_results, leaderboard,
                 payoff_matrix_3player, tournament_task, tasks, response,
                 match_calls>>

SandboxNext == SandboxCall

SpecSandbox == SandboxInit /\ [][SandboxNext]_vars


\* ================================================================ claims
AliveTasks == {t \in 1..Len(tasks) : Alive(tasks[t])}

ZeroedStats ==
  \A id \in DOMAIN teams :
    /\ teams[id].total_score = 0
    /\ teams[id].cooperations = 0
    /\ teams[id].defections = 0
    /\ teams[id].matches_played = 0

\* C1: at most one run_tournament task is alive (neither completed nor
\* cancelled) in any state reachable by start, pause, resume and reset; a
\* start during an earlier run does not launch a second one.
C1_AtMostOneRun == Cardinality(AliveTasks) <= 1

\* C2: once reset has returned, and for as long as it is the last command
\* answered, nothing of the earlier run goes on: status is idle, every
\* participant's cumulative stats are zero and the match-results log is empty.
C2_ResetQuiesces ==
  response.cmd = "reset_tournament" =>
    /\ tournament_state.status = "idle"
    /\ ZeroedStats
    /\ match_results = <<>>

\* C3: a match's deltas are applied atomically: across any step, the teams
\* whose matches_played went up are either none or all three participants of
\* one match.
GotDeltas ==
  {id \in DOMAIN teams \cap DOMAIN teams' :
     teams'[id].matches_played > teams[id].matches_played}

C3_DeltasAtomic == [][Cardinality(GotDeltas) \in {0, 3}]_vars

\* -- sandbox claims, over one call of execute_strategy
Denylisted(strategy_code) ==
  \E pattern \in forbidden_patterns : pattern \in strategy_code.tokens

\* the call ends on its own: neither the top-level code nor strategy() loops
Terminating(strategy_code) ==
  /\ strategy_code.toplevel # "loops"
  /\ (strategy_code.toplevel = "ok" /\ strategy_code.defines)
       => strategy_code.body # "loops"

\* strategy is defined and its call gives back one of the two legal moves
OwnMove(sb) ==
  StrategyValue(sb.strategy_code.body, sb.histories[1], sb.histories[2],
                sb.histories[3])

ReturnsLegalMove(sb) ==
  /\ sb.strategy_code.toplevel = "ok"
  /\ sb.strategy_code.defines
  /\ sb.strategy_code.body \notin {"raises", "loops"}
  /\ OwnMove(sb) \in Moves

\* C4 as stated: for every executed strategy that terminates, the call
\* returns the strategy's own legal move if it returned one, and 'D' in
\* every other case.
C4_OwnMoveOrDefect ==
  (sandbox.pc # "calling" /\ ~Denylisted(sandbox.strategy_code)
     /\ Terminating(sandbox.strategy_code)) =>
    /\ sandbox.pc = "returned"
    /\ sandbox.out.result =
         IF ReturnsLegalMove(sandbox) THEN OwnMove(sandbox) ELSE "D"

\* the timer flag was still unset when execute_strategy read it
InTime(sb) ==
  \/ sb.strategy_code.dur < TIMEOUT_MS
  \/ sb.strategy_code.dur = TIMEOUT_MS /\ ~sb.out.timed_out

\* C4 amended: for every executed strategy that terminates, the call
\* returns, its result is 'C' or 'D', and it is the strategy's own legal
\* move exactly when the strategy returned one before the 5 ms timer flag
\* was set; in every other case (legal move after the timer fired, other
\* value, error while defined or called, no strategy symbol) it is 'D'.
C4_OwnMoveInTimeOrDefect ==
  (sandbox.pc # "calling" /\ ~Denylisted(sandbox.strategy_code)
     /\ Terminating(sandbox.strategy_code)) =>
    /\ sandbox.pc = "returned"
    /\ sandbox.out.result \in Moves
    /\ sandbox.out.result =
         IF ReturnsLegalMove(sandbox) /\ InTime(sandbox)
         THEN OwnMove(sandbox) ELSE "D"

C4_Witness ==
  /\ sandbox.pc = "returned"
  /\ sandbox.strategy_code.body = "C"
  /\ ReturnsLegalMove(sandbox)
  /\ sandbox.strategy_code.dur > TIMEOUT_MS
  /\ sandbox.out.result = "D"

\* C5: a strategy whose call runs past the deadline, one that never returns
\* included, still has its sandbox call terminate with Defect.
C5_PastDeadlineDefects ==
  (/\ sandbox.pc # "calling"
   /\ ~Denylisted(sandbox.strategy_code)
   /\ sandbox.strategy_code.toplevel = "ok"
   /\ sandbox.strategy_code.defines
   /\ \/ sandbox.strategy_code.body = "loops"
      \/ sandbox.strategy_code.dur > TIMEOUT_MS) =>
    /\ sandbox.pc = "returned"
    /\ sandbox.out.result = "D"

\* C6: a source containing a denylisted token makes execute_strategy return
\* Defect with none of the source run: neither its top-level code nor its
\* strategy function.
C6_DenylistedNeverRuns ==
  (sandbox.pc # "calling" /\ Denylisted(sandbox.strategy_code)) =>
    /\ sandbox.pc = "returned"
    /\ sandbox.out.result = "D"
    /\ ~sandbox.out.ran_toplevel
    /\ ~sandbox.out.called

C6_Witness ==
  /\ sandbox.pc = "returned"
  /\ "getattr" \in sandbox.strategy_code.tokens
  /\ sandbox.strategy_code.toplevel = "ok"
  /\ sandbox.strategy_code.defines
  /\ sandbox.strategy_code.body = "C"
  /\ sandbox.out.result = "D"

\* -- command claims
RunState == <<tournament_state, teams, match_results, leaderboard, tasks,
              tournament_task>>

\* C7: pause succeeds only from running and resume only from paused; from
\* any other status the command is answered with an error and the tournament
\* state, the participants' stats and the match-results log are unchanged.
C7_PauseResumeGuarded ==
  [][/\ pause_tournament =>
          IF tournament_state.status = "running"
          THEN /\ response'.code = 200
               /\ tournament_state'.status = "paused"
          ELSE /\ response' = Response("pause_tournament", 400,
                                       "Tournament not running")
               /\ UNCHANGED RunState
     /\ resume_tournament =>
          IF tournament_state.status = "paused"
          THEN /\ response'.code = 200
               /\ tournament_state'.status = "running"
          ELSE /\ response' = Response("resume_tournament", 400,
                                       "Tournament not paused")
               /\ UNCHANGED RunState]_vars

C7_Witness ==
  /\ response = Response("pause_tournament", 400, "Tournament not running")
  /\ tournament_state.status = "paused"
  /\ AliveTasks # {}

C9_TwoTeamsStart ==
  [][(/\ start_tournament
      /\ Cardinality(DOMAIN teams) = 2
      /\ tournament_state.status \in {"idle", "finished"}
      /\ AliveTasks = {}) =>
       /\ response'.code = 200
       /\ tournament_state'.status = "running"]_vars

\* -- schedule claims, over uninterrupted runs
Choose3(K) == (K * (K - 1) * (K - 2)) \div 6

ResultIds(result) == <<result.team_a_id, result.team_b_id, result.team_c_id>>

LexLess(x, y) ==
  \/ x[1] < y[1]
  \/ x[1] = y[1] /\ x[2] < y[2]
  \/ x[1] = y[1] /\ x[2] = y[2] /\ x[3] < y[3]

\* C10: with K >= 3 registered participants, total_matches is C(K,3) and
\* the matches completed by an uninterrupted run are 3-subsets of the
\* participants in strictly increasing registration order, hence distinct;
\* when the run has finished there are exactly C(K,3) of them, so every
\* 3-subset was played exactly once.
C10_RoundRobin ==
  LET K == Cardinality(DOMAIN teams)
      n == Len(match_results)
  IN /\ tournament_state.total_matches \in {0, Choose3(K)}
     /\ \A i \in 1..n :
          LET ids == ResultIds(match_results[i])
          IN /\ ids[1] < ids[2] /\ ids[2] < ids[3]
             /\ \A j \in 1..3 : ids[j] \in DOMAIN teams
             /\ i < n => LexLess(ids, ResultIds(match_results[i + 1]))
     /\ tournament_state.status = "finished" =>
          /\ tournament_state.total_matches = Choose3(K)
          /\ n = Choose3(K)

C10_Witness ==
  /\ tournament_state.status = "finished"
  /\ Cardinality(DOMAIN teams) = 4
  /\ Len(match_results) = 4
  /\ tournament_state.total_matches = 4

\* -- status machine
StatusEdges ==
  {<<"idle", "running">>, <<"running", "paused">>, <<"paused", "running">>,
   <<"running", "finished">>, <<"finished", "running">>,
   <<"running", "idle">>, <<"paused", "idle">>, <<"finished", "idle">>}

\* C11: the status changes only along idle->running, running->paused,
\* paused->running, running->finished, finished->running and any->idle; it
\* never moves to finished directly from paused or from idle.
C11_StatusTransitions ==
  [][tournament_state'.status # tournament_state.status =>
       <<tournament_state.status, tournament_state'.status>> \in StatusEdges]_vars

\* -- pausing
\* task t is inside a match: announced, playing rounds, or about to write
\* its result
InMatch(task) ==
  task.pc \in {"send_match_started", "sleep_match_started",
               "send_match_progress", "sleep_round"}

\* a match of task t plays its first round in this step
FirstRoundPlayed(t) ==
  /\ t \in 1..Len(tasks')
  /\ tasks[t].pc = "sleep_match_started"
  /\ tasks'[t].pc \in {"send_match_progress", "blocked"}

\* a task of the scheduler moves on to a new match in this step
MatchSelected(t) ==
  /\ t \in 1..Len(tasks')
  /\ tasks[t].pc # "send_match_started"
  /\ tasks'[t].pc = "send_match_started"

PauseLeavesMatches ==
  pause_tournament => UNCHANGED <<tasks, teams, match_results, leaderboard>>

\* C12 as stated: no match begins executing rounds while the status is
\* paused, and a pause neither aborts nor alters a match in flight.
C12_NoRoundsBeginPaused ==
  [][/\ \A t \in 1..Len(tasks) :
          FirstRoundPlayed(t) => tournament_state.status # "paused"
     /\ PauseLeavesMatches]_vars

\* C12 amended: while the status is paused the scheduler does not move on to
\* a new match (none becomes the current match or is announced), and a pause
\* neither aborts nor alters a match in flight; a match announced before the
\* pause plays all its rounds.
C12_NoMatchSelectedPaused ==
  [][/\ \A t \in 1..Len(tasks) :
          MatchSelected(t) =>
            /\ tournament_state.status \notin {"paused", "idle"}
            /\ tournament_state'.status = tournament_state.status
            /\ tournament_state'.current_match.match_number = tasks'[t].idx + 1
     /\ PauseLeavesMatches]_vars

C12_Witness ==
  /\ tournament_state.status = "paused"
  /\ \E t \in 1..Len(tasks) :
       /\ tasks[t].pc = "sleep_round"
       /\ tasks[t].round_num = Rounds
  /\ response = Response("pause_tournament", 200, "paused")

\* C13: a run that is paused mid-run and later resumed (no reset, no other
\* start) eventually reaches finished, and when it has, it has completed
\* exactly total_matches = C(K,3) matches, as an uninterrupted run does.
C13_PausedRunCompletes ==
  /\ [](tournament_state.status = "finished" =>
          /\ tournament_state.total_matches = Choose3(Cardinality(DOMAIN teams))
          /\ Len(match_results) = tournament_state.total_matches
          /\ Len(tournament_state.matches_completed) = tournament_state.total_matches)
  /\ (<>[](tournament_state.status # "paused")) =>
       [](tasks # <<>> => <>(tournament_state.status = "finished"))

C13_Witness ==
  /\ tournament_state.status = "finished"
  /\ response = Response("resume_tournament", 200, "resumed")
  /\ Cardinality(DOMAIN teams) = 4
  /\ Len(match_results) = 4

\* -- payoff table
\* C14: the payoff table does not change while a run is in progress: an
\* update issued while the status is running is rejected or ignored.
C14_PayoffFixedWhileRunning ==
  [][tournament_state.status = "running" =>
       payoff_matrix_3player' = payoff_matrix_3player]_vars

\* -- end-to-end match
\* C15: a match in which A always cooperates and B always defects ends, under
\* the default table, with A's score 0 and B's score 5 per round played (500
\* over 100 rounds), A having cooperated in every round (100.0 %) and B in
\* none (0.0 %).
C15_CooperatorVsDefector ==
  \A i \in 1..Len(match_results) :
    LET r == match_results[i] IN
    (/\ teams[r.team_a_id].strategy_code = AlwaysCooperate
     /\ teams[r.team_b_id].strategy_code = AlwaysDefect
     /\ payoff_matrix_3player = DefaultPayoff) =>
      /\ r.team_a_score = 0
      /\ r.team_b_score = 5 * r.rounds
      /\ r.team_a_cooperations = r.rounds /\ r.team_a_defections = 0
      /\ r.team_b_cooperations = 0 /\ r.team_b_defections = r.rounds

\* -- leaderboard
\* C16: update_leaderboard gives one entry per registered participant,
\* ordered by total score descending, equal scores in registration order,
\* with ranks 1..n by position: rank strictly increasing while score is
\* non-increasing.
C16_LeaderboardOrdered ==
  leaderboard # <<>> =>
    /\ Len(leaderboard) = Cardinality(DOMAIN teams)
    /\ {leaderboard[i].id : i \in 1..Len(leaderboard)} = DOMAIN teams
    /\ \A i \in 1..Len(leaderboard) :
         /\ leaderboard[i].rank = i
         /\ leaderboard[i].total_score = teams[leaderboard[i].id].total_score
    /\ \A i, j \in 1..Len(leaderboard) :
         i < j =>
           /\ leaderboard[i].total_score >= leaderboard[j].total_score
           /\ leaderboard[i].total_score = leaderboard[j].total_score =>
                leaderboard[i].id < leaderboard[j].id

C16_Witness ==
  /\ Len(leaderboard) = 4
  /\ leaderboard[1].id = 3
  /\ leaderboard[2].id = 1
  /\ leaderboard[3].id = 4
  /\ leaderboard[2].total_score = leaderboard[3].total_score
  /\ leaderboard[4].total_score < leaderboard[3].total_score

\* C17: the published leaderboard never diverges from participant state:
\* every entry's total score, cooperations, defections and matches played
\* are the current values of its participant in the registry.
C17_LeaderboardCurrent ==
  \A i \in 1..Len(leaderboard) :
    LET entry == leaderboard[i] IN
    entry.id \in DOMAIN teams =>
      /\ entry.total_score = teams[entry.id].total_score
      /\ entry.cooperations = teams[entry.id].cooperations
      /\ entry.defections = teams[entry.id].defections
      /\ entry.matches_played = teams[entry.id].matches_played

\* C18: within one run (across every step other than a start or a reset)
\* no participant's cumulative total score goes down, whatever table the
\* payoff-matrix update accepted.
C18_ScoreMonotone ==
  [][(~start_tournament /\ ~reset_tournament) =>
       \A id \in DOMAIN teams \cap DOMAIN teams' :
         teams'[id].total_score >= teams[id].total_score]_vars

\* -- determinism
\* no strategy of the match runs as long as the timer
Untimed ==
  \A id \in DOMAIN teams : teams[id].strategy_code.dur # TIMEOUT_MS

AcceptedStart == start_tournament /\ StartError = None

\* the matches of one run that a team of K plays in
MatchesOfTeam(K) == ((K - 1) * (K - 2)) \div 2

\* the stats and the log hold no more than one run over the registered teams
OneRunOnly ==
  /\ Len(match_results) <= Choose3(Cardinality(DOMAIN teams))
  /\ \A id \in DOMAIN teams :
       teams[id].matches_played <= MatchesOfTeam(Cardinality(DOMAIN teams))

\* C20: an accepted start from idle or finished leaves every team's total
\* score, cooperations, defections and matches played at zero and the
\* match-results log empty, and when the run is finished the stats and the
\* log hold that run's matches only.
C20_FreshRun ==
  [][/\ AcceptedStart =>
          /\ match_results' = <<>>
          /\ \A id \in DOMAIN teams' :
               /\ teams'[id].total_score = 0
               /\ teams'[id].cooperations = 0
               /\ teams'[id].defections = 0
               /\ teams'[id].matches_played = 0
     /\ tournament_state'.status = "finished" => OneRunOnly']_vars

\* -- reset
\* C21: reset is accepted whatever the status, and the state it leaves is the
\* initial tournament state (status idle, no current match, no total and no
\* completed matches), an empty match-results log and leaderboard and zero
\* stats for every team, with the same teams, names and strategies registered.
C21_ResetToInitial ==
  /\ [](~Hung => ENABLED reset_tournament)
  /\ [][reset_tournament =>
          /\ tournament_state'.status = "idle"
          /\ tournament_state'.current_match = NoMatch
          /\ tournament_state'.total_matches = 0
          /\ tournament_state'.matches_completed = <<>>
          /\ tournament_state'.current_match_index = 0
          /\ match_results' = <<>>
          /\ leaderboard' = <<>>
          /\ DOMAIN teams' = DOMAIN teams
          /\ \A id \in DOMAIN teams :
               /\ teams'[id].name = teams[id].name
               /\ teams'[id].strategy_code = teams[id].strategy_code
               /\ teams'[id].total_score = 0
               /\ teams'[id].cooperations = 0
               /\ teams'[id].defections = 0
               /\ teams'[id].matches_played = 0]_vars

\* a reset has just been answered and has cancelled the task of a run
C21_Witness ==
  /\ response.cmd = "reset_tournament"
  /\ tournament_state.status = "idle"
  /\ Cardinality(DOMAIN teams) >= MatchSize
  /\ match_results = <<>>
  /\ leaderboard = <<>>
  /\ \E t \in 1..Len(tasks) : tasks[t].pc = "cancelled"

\* -- the match-results log
\* C22: within a run the match-results log grows by exactly one MatchResult
\* per completed match, in schedule order, a logged result is never changed
\* afterwards (the log is only emptied by a start or a reset, which begin
\* anew), and the log is never longer than total_matches.
C22_LogAppendOnly ==
  [][/\ \/ match_results' = match_results
        \/ (start_tournament \/ reset_tournament) /\ match_results' = <<>>
        \/ /\ Len(match_results') = Len(match_results) + 1
           /\ SubSeq(match_results', 1, Len(match_results)) = match_results
           /\ match_results # <<>> =>
                LexLess(ResultIds(match_results[Len(match_results)]),
                        ResultIds(match_results'[Len(match_results')]))
     /\ Len(match_results') <= tournament_state'.total_matches]_vars

\* -- a scheduled match over a deleted team
\* C23: when a scheduled match names a team that is no longer registered the
\* run is aborted and the tournament is not left in status running with no
\* task to advance it.
C23_NoStuckRun ==
  tournament_state.status = "running" =>
    \E t \in 1..Len(tasks) : Alive(tasks[t])

\* -- scoring of a round
\* task t has just played a round of its match
PlayedRound(t) ==
  /\ t \in DOMAIN tasks /\ t \in DOMAIN tasks'
  /\ tasks'[t].pc = "send_match_progress"
  /\ tasks[t].pc \in {"sleep_match_started", "sleep_round"}

\* what participant i of task t had scored before the round
ScoreBefore(t, i) == IF tasks[t].round_num = 0 THEN 0 ELSE tasks[t].score[i]

\* the number of the other two participants whose move of the round just
\* played is Cooperate
OthersCooperated(t, i) ==
  Cardinality({j \in 1..3 \ {i} : Last(tasks'[t].history[j]) = "C"})

\* C24: in every round each participant is awarded payoff[own move][k], k
\* the number of the other two participants who cooperated; the moves are
\* legal, k lies in 0..2 and the table has an entry for the pair, under the
\* default table and under every table the update interface installs.
C24_PayoffByOthers ==
  [][\A t \in 1..Len(tasks) : PlayedRound(t) =>
       \A i \in 1..3 :
         LET move == Last(tasks'[t].history[i])
             k == OthersCooperated(t, i)
         IN /\ move \in Moves
            /\ k \in 0..2
            /\ move \in DOMAIN payoff_matrix_3player
            /\ k \in DOMAIN payoff_matrix_3player[move]
            /\ tasks'[t].score[i] =
                 ScoreBefore(t, i) + payoff_matrix_3player[move][k]]_vars

\* a second round has been scored in which one participant defected against
\* two cooperators, under a table that is not the default one
C24_Witness ==
  /\ payoff_matrix_3player # DefaultPayoff
  /\ \E t \in 1..Len(tasks) :
       /\ tasks[t].pc = "send_match_progress"
       /\ tasks[t].round_num = 2
       /\ Last(tasks[t].history[1]) = "C"
       /\ Last(tasks[t].history[2]) = "C"
       /\ Last(tasks[t].history[3]) = "D"
       /\ tasks[t].score[3] > tasks[t].score[1]

\* -- simultaneous moves
\* the two opponents of each participant, in the order they are handed over:
\* A sees B, C; B sees A, C; C sees A, B
Seen == <<<<2, 3>>, <<1, 3>>, <<1, 2>>>>

\* the first n moves of a history
Prefix(h, n) == SubSeq(h, 1, n)

RECURSIVE PayoffSum(_, _, _, _)
PayoffSum(history, i, k, payoff) ==
  IF k = 0 THEN 0
  ELSE payoff[history[i][k]]
             [Cardinality({j \in 1..3 \ {i} : history[j][k] = "C"})]
       + PayoffSum(history, i, k - 1, payoff)

\* the locals of a match after its round_num rounds
AccountsBalance(task) ==
  \A i \in 1..3 :
    /\ Len(task.history[i]) = task.round_num
    /\ task.coops[i] + task.defects[i] = task.round_num
    /\ task.coops[i] =
         Cardinality({r \in 1..task.round_num : task.history[i][r] = "C"})
    /\ task.score[i] =
         PayoffSum(task.history, i, task.round_num, payoff_matrix_3player)

\* the MatchResult's cooperations and defections add up to its rounds
ResultBalances(result) ==
  /\ result.team_a_cooperations + result.team_a_defections = result.rounds
  /\ result.team_b_cooperations + result.team_b_defections = result.rounds
  /\ result.team_c_cooperations + result.team_c_defections = result.rounds

\* C26: after k completed rounds of a match every participant's history has
\* length k, its cooperations and defections add up to k and its score is
\* the sum of its payoffs round by round; the MatchResult carries the scores
\* and counts of the last round, so that its cooperations and defections add
\* up to the number of rounds.
C26_MatchAccounting ==
  [][/\ \A t \in 1..Len(tasks') :
          tasks'[t].round_num >= 1 => AccountsBalance(tasks'[t])
     /\ \A n \in 1..Len(match_results') : ResultBalances(match_results'[n])
     /\ \A t \in 1..Len(tasks) :
          run_match_finish(t) /\ Len(match_results') = Len(match_results) + 1 =>
            LET result == match_results'[Len(match_results')] IN
            /\ result.rounds = tasks[t].round_num
            /\ <<result.team_a_score, result.team_b_score, result.team_c_score>>
                 = tasks[t].score
            /\ <<result.team_a_cooperations, result.team_b_cooperations,
                 result.team_c_cooperations>> = tasks[t].coops
            /\ <<result.team_a_defections, result.team_b_defections,
                 result.team_c_defections>> = tasks[t].defects]_vars

\* a match has been logged in which the third team was timed out once
C26_Witness ==
  /\ Len(match_results) = 1
  /\ teams[3].strategy_code = SlowCooperate
  /\ match_results[1].team_c_cooperations = 1
  /\ match_results[1].team_c_defections = 1
  /\ match_results[1].team_a_score > 0

\* -- order of the events
\* task t begins to publish the event of pc
Publishes(t, pc) ==
  /\ t \in DOMAIN tasks /\ t \in DOMAIN tasks'
  /\ tasks[t].pc # pc
  /\ tasks'[t].pc = pc

MatchTeams(task) == combinations(task.team_ids)[task.idx + 1]

\* C28: no team taking part in a match in flight is removed from the
\* registry while that match is in progress.
C28_NoDeleteMidMatch ==
  \A t \in 1..Len(tasks) :
    InMatch(tasks[t]) =>
      \A i \in 1..3 : MatchTeams(tasks[t])[i] \in DOMAIN teams

\* -- team names
\* C29: in every state of the registry the names of the teams are non-empty
\* after trimming and no two of them are equal after trimming and
\* lower-casing.
C29_NamesUnique ==
  /\ \A id \in DOMAIN teams : strip_lower(teams[id].name) # ""
  /\ \A a, b \in DOMAIN teams :
       a # b => strip_lower(teams[a].name) # strip_lower(teams[b].name)

\* -- the end of a run
\* the position in its schedule from which task goes on at its next step
NextIndex(task) ==
  CASE task.pc = "send_tournament_started" -> 0
    [] task.pc = "sleep_paused" -> task.idx
    [] OTHER -> task.idx + 1

\* C30: whenever the status is finished the match-results log holds exactly
\* total_matches results and there is no current match, and a task sets the
\* status to finished and publishes tournament_finished only when its
\* schedule is exhausted, never after it left the loop early.
C30_FinishedMeansComplete ==
  [][/\ tournament_state'.status = "finished" =>
          /\ Len(match_results') = tournament_state'.total_matches
          /\ tournament_state'.current_match = NoMatch
     /\ \A t \in 1..Len(tasks) :
          Publishes(t, "send_tournament_finished") =>
            NextIndex(tasks[t]) >= Len(combinations(tasks[t].team_ids))]_vars

====
